---------------------------- MODULE Spec2Model ----------------------------
(***************************************************************************)
(* A model of the VR controller emulator:                                  *)
(*   - the phone-side relay (src/termux/server.js): the stdout framer and  *)
(*     the WebSocket fan-out;                                              *)
(*   - the pose estimator (src/utils/physics.ts): PhysicsEngine;           *)
(*   - the PC-side host (src/App.tsx, src/components/*.tsx).               *)
(*                                                                         *)
(* Text is a sequence of one-character strings over the alphabet           *)
(*   {  }  "  :  1  newline                                                *)
(* which is enough to write JSON objects, nested objects, strings that     *)
(* hold braces, numbers and insignificant whitespace.  JSON.parse is       *)
(* modelled by a recursive-descent recogniser of JSON restricted to that   *)
(* alphabet, JSON.stringify(JSON.parse(s)) by the removal of the           *)
(* insignificant whitespace.                                               *)
(***************************************************************************)
EXTENDS Integers, Sequences, FiniteSets, TLC

VARIABLES
    \* ---- relay (server.js) ----
    buffer,       \* let buffer = ''                     (server.js:49)
    pc,           \* where the stdout 'data' handler is: "idle" (not running),
                  \* "loop" (at the while test), "fallback" (after the loop)
    readyState,   \* per client: "NONE" (not in wss.clients), "OPEN", "CLOSING", "CLOSED"
    inbox,        \* per client: what client.send / ws.send has been given, in order
    \* ---- environment and history of the relay ----
    input,        \* the text the sensor process writes to stdout, and how it was built
    pos,          \* how many characters of input.text have been delivered so far
    chunks,       \* history: how many 'data' events there have been
    emitted,      \* history: every successful tryParseAndSend, with readyState at that time
    regAt,        \* history: per client, Len(emitted) when it registered
    \* ---- estimator (physics.ts) ----
    heap,         \* the ControllerState objects that exist, by identity
    engine,       \* PhysicsEngine.state: the identity of the object it refers to
    clock,        \* performance.now(), in milliseconds
    \* ---- a caller of the estimator, and history ----
    readerRef,    \* the object a reader got from getState() (0: none yet)
    readerSeen,   \* history: the fields of that object when the reader got it
    op,           \* history: the last operation on the estimator, its inputs and
                  \* the state before it
    nOps,         \* history: how many operations there have been
    \* ---- host (App.tsx, ConnectionPanel.tsx, Visualizer.tsx) ----
    isConnected,      \* useState(false)                         (App.tsx:8)
    wsRef,            \* wsRef.current: a socket, or 0 for null   (App.tsx:10)
    sock,             \* per WebSocket object: "NONE" (not created), "CONNECTING",
                      \* "OPEN", "CLOSING", "CLOSED"
    physicsStateRef,  \* physicsState.current: an object, 0 without a host (App.tsx:16)
    mesh,             \* the position and quaternion the renderer last set
    hostEvent,        \* history: the last event the host handled
    nEvents           \* history: how many events the host has handled

serverVars == <<buffer, pc, readyState, inbox, input, pos, chunks, emitted, regAt>>

estVars == <<heap, engine, clock, readerRef, readerSeen, op, nOps>>

hostVars == <<isConnected, wsRef, sock, physicsStateRef, mesh, hostEvent, nEvents>>

vars == <<serverVars, estVars, hostVars>>

-----------------------------------------------------------------------------
(* Characters *)

LB == "{"
RB == "}"
QT == "\""
CO == ":"
D1 == "1"
NL == "\n"

-----------------------------------------------------------------------------
(* String primitives of JavaScript, on sequences of characters.  Indices   *)
(* are 0-based and -1 means "not found", as in the code.                   *)

At(s, i) == IF i >= 1 /\ i <= Len(s) THEN s[i] ELSE ""

IsWs(c) == c = NL

RECURSIVE TrimLeft(_)
TrimLeft(s) == IF s # <<>> /\ IsWs(Head(s)) THEN TrimLeft(Tail(s)) ELSE s

RECURSIVE TrimRight(_)
TrimRight(s) ==
    IF s # <<>> /\ IsWs(s[Len(s)]) THEN TrimRight(SubSeq(s, 1, Len(s) - 1)) ELSE s

\* String.prototype.trim
Trim(s) == TrimRight(TrimLeft(s))

\* String.prototype.endsWith, for a one-character argument
EndsWith(s, c) == s # <<>> /\ s[Len(s)] = c

MatchesAt(s, pat, i) ==
    /\ i + Len(pat) <= Len(s)
    /\ \A k \in 1..Len(pat) : s[i + k] = pat[k]

\* String.prototype.indexOf: the 0-based index of the first occurrence, or -1
IndexOf(s, pat) ==
    LET hits == {i \in 0..Len(s) : MatchesAt(s, pat, i)}
    IN  IF hits = {} THEN -1 ELSE CHOOSE i \in hits : \A j \in hits : i <= j

\* String.prototype.slice(a, b) and slice(a), for 0 <= a <= b <= length
Slice(s, a, b) == SubSeq(s, a + 1, b)
SliceFrom(s, a) == SubSeq(s, a + 1, Len(s))

-----------------------------------------------------------------------------
(* JSON.parse, restricted to the alphabet.  Each recogniser takes the text *)
(* and a 1-based position and gives the position after what it recognised, *)
(* or 0 when the text is not JSON there (JSON.parse throws).                *)

RECURSIVE SkipWs(_, _)
SkipWs(s, i) == IF IsWs(At(s, i)) THEN SkipWs(s, i + 1) ELSE i

\* After an opening quote: up to and including the closing quote.  A raw
\* newline inside a string is not JSON.
RECURSIVE StringEnd(_, _)
StringEnd(s, i) ==
    IF i > Len(s) THEN 0
    ELSE IF s[i] = QT THEN i + 1
    ELSE IF s[i] = NL THEN 0
    ELSE StringEnd(s, i + 1)

RECURSIVE NumberEnd(_, _)
NumberEnd(s, i) == IF At(s, i) = D1 THEN NumberEnd(s, i + 1) ELSE i

RECURSIVE ValueEnd(_, _)
RECURSIVE ObjectEnd(_, _)

ValueEnd(s, i) ==
    LET j == SkipWs(s, i)
    IN  CASE At(s, j) = LB -> ObjectEnd(s, j)
          [] At(s, j) = QT -> StringEnd(s, j + 1)
          [] At(s, j) = D1 -> NumberEnd(s, j)
          [] OTHER -> 0

\* s[i] = "{": an empty object, or one "key": value member (the alphabet has
\* no comma)
ObjectEnd(s, i) ==
    LET j == SkipWs(s, i + 1)
    IN  IF At(s, j) = RB THEN j + 1
        ELSE IF At(s, j) # QT THEN 0
        ELSE LET k == StringEnd(s, j + 1)
                 c == SkipWs(s, k)
             IN  IF k = 0 \/ At(s, c) # CO THEN 0
                 ELSE LET v == ValueEnd(s, c + 1)
                          e == SkipWs(s, v)
                      IN  IF v = 0 \/ At(s, e) # RB THEN 0 ELSE e + 1

\* JSON.parse(s) does not throw
JSONParses(s) ==
    LET e == ValueEnd(s, 1)
    IN  e # 0 /\ SkipWs(s, e) > Len(s)

\* JSON.stringify(JSON.parse(s)), for a text that parses: the same value
\* written without insignificant whitespace
JSONStringifyParse(s) == SelectSeq(s, LAMBDA c : ~IsWs(c))

-----------------------------------------------------------------------------
(* The relay: server.js *)

MaxClients == 2

Clients == 1..MaxClients

\* wss.clients: the server's set holds a socket from its 'connection' event
\* until its 'close' event; a socket whose closing handshake has begun is
\* still in it, with readyState CLOSING
Registered(states) == {c \in Clients : states[c] \in {"OPEN", "CLOSING"}}

\* the first message a client is sent (server.js:31)
InfoMsg == [kind |-> "info", seq |-> 0, body |-> <<>>]

\* the split point of one iteration of the loop (server.js:64), from the two
\* indexOf results
SplitPointAtBoundary(bn, bp) == 0

SplitPoint(bn, bp) == IF bn # -1 THEN bn + 1 ELSE bp + 1

\* the while loop (server.js:58-70): the buffer it leaves and the texts it
\* hands to tryParseAndSend, in order
RECURSIVE SplitLoop(_, _)
SplitLoop(buf, cands) ==
    LET bn == IndexOf(buf, <<RB, NL, LB>>)
        bp == IndexOf(buf, <<RB, LB>>)
    IN  IF bn # -1 \/ bp # -1
        THEN LET splitPoint == SplitPoint(bn, bp)
                 jsonStr == Trim(Slice(buf, 0, splitPoint))
             IN  SplitLoop(Trim(SliceFrom(buf, splitPoint)), Append(cands, jsonStr))
        ELSE [buffer |-> buf, cands |-> cands]

\* the test of the whole remaining buffer (server.js:75-78)
FallbackAppliesLoose(buf) == EndsWith(Trim(buf), RB)

FallbackApplies(buf) == EndsWith(Trim(buf), RB) /\ JSONParses(buf)

\* the buffer when the data handler returns (server.js:75-84)
BufferAfterFallbackKeeps(buf) == buf

BufferAfterFallback(buf) == IF FallbackApplies(buf) THEN <<>> ELSE buf

\* tryParseAndSend (server.js:87-111) up to the broadcast: the message to
\* broadcast, if any
TryParseSendsAll(jsonStr) ==
    LET cleanStr == Trim(jsonStr)
    IN  IF cleanStr = <<>> THEN <<>> ELSE <<cleanStr>>

TryParse(jsonStr) ==
    LET cleanStr == Trim(jsonStr)
    IN  IF cleanStr = <<>> THEN <<>>
        ELSE IF JSONParses(cleanStr) THEN <<JSONStringifyParse(cleanStr)>>
        ELSE <<>>

RECURSIVE Messages(_)
Messages(cands) ==
    IF cands = <<>> THEN <<>> ELSE TryParse(Head(cands)) \o Messages(Tail(cands))

\* the clients a broadcast writes to (server.js:103-107)
RecipientsNoStateCheck(states) == Registered(states)

Recipients(states) == {c \in Registered(states) : states[c] = "OPEN"}

\* sensorProcess.stdout.on('data') (server.js:51-85), with every
\* tryParseAndSend it makes
StdoutData(chunk) ==
    LET loop == SplitLoop(buffer \o chunk, <<>>)
        cands == IF FallbackApplies(loop.buffer)
                 THEN Append(loop.cands, loop.buffer) ELSE loop.cands
        msgs == Messages(cands)
        sent == [k \in 1..Len(msgs) |->
                    [kind |-> "record", seq |-> Len(emitted) + k, body |-> msgs[k]]]
    IN  /\ buffer' = BufferAfterFallback(loop.buffer)
        /\ inbox' = [c \in Clients |->
                        IF c \in Recipients(readyState) THEN inbox[c] \o sent
                        ELSE inbox[c]]
        /\ emitted' = emitted \o
                        [k \in 1..Len(msgs) |-> [body |-> msgs[k], states |-> readyState]]
        /\ UNCHANGED <<readyState, regAt>>

\* the sensor process writes its next n characters
Data(n) ==
    /\ pc = "idle"
    /\ n \in 1..(Len(input.text) - pos)
    /\ StdoutData(SubSeq(input.text, pos + 1, pos + n))
    /\ pos' = pos + n
    /\ chunks' = chunks + 1
    /\ UNCHANGED <<pc, input, estVars, hostVars>>

\* The same handler one step at a time.

\* tryParseAndSend(jsonStr) (server.js:87-111) with its broadcast
TryParseAndSend(jsonStr) ==
    LET msgs == TryParse(jsonStr)
        sent == [k \in 1..Len(msgs) |->
                    [kind |-> "record", seq |-> Len(emitted) + k, body |-> msgs[k]]]
    IN  /\ inbox' = [c \in Clients |->
                        IF c \in Recipients(readyState) THEN inbox[c] \o sent
                        ELSE inbox[c]]
        /\ emitted' = emitted \o
                        [k \in 1..Len(msgs) |-> [body |-> msgs[k], states |-> readyState]]

\* the while test (server.js:59)
BoundaryFound(buf) == IndexOf(buf, <<RB, NL, LB>>) # -1 \/ IndexOf(buf, <<RB, LB>>) # -1

\* a 'data' event begins: buffer += data.toString() (server.js:51-52)
Receive(n) ==
    /\ pc = "idle"
    /\ n \in 1..(Len(input.text) - pos)
    /\ buffer' = buffer \o SubSeq(input.text, pos + 1, pos + n)
    /\ pos' = pos + n
    /\ chunks' = chunks + 1
    /\ pc' = "loop"
    /\ UNCHANGED <<readyState, inbox, input, emitted, regAt, estVars, hostVars>>

\* one iteration of the while loop (server.js:59-70); splitPoint and jsonStr
\* are its two constants
LoopIteration ==
    /\ pc = "loop"
    /\ BoundaryFound(buffer)
    /\ \E splitPoint \in {SplitPoint(IndexOf(buffer, <<RB, NL, LB>>),
                                      IndexOf(buffer, <<RB, LB>>))} :
       \E jsonStr \in {Trim(Slice(buffer, 0, splitPoint))} :
          /\ buffer' = Trim(SliceFrom(buffer, splitPoint))
          /\ TryParseAndSend(jsonStr)
    /\ UNCHANGED <<pc, readyState, input, pos, chunks, regAt, estVars, hostVars>>

\* the while test fails (server.js:59)
LoopExit ==
    /\ pc = "loop"
    /\ ~BoundaryFound(buffer)
    /\ pc' = "fallback"
    /\ UNCHANGED <<buffer, readyState, inbox, input, pos, chunks, emitted, regAt,
                   estVars, hostVars>>

\* the test of the whole buffer, and the handler returns (server.js:72-85)
Fallback ==
    /\ pc = "fallback"
    /\ IF FallbackApplies(buffer)
       THEN TryParseAndSend(buffer)
       ELSE UNCHANGED <<inbox, emitted>>
    /\ buffer' = BufferAfterFallback(buffer)
    /\ pc' = "idle"
    /\ UNCHANGED <<readyState, input, pos, chunks, regAt, estVars, hostVars>>

\* what a client is sent when it connects (server.js:31)
GreetingWithHistory ==
    <<InfoMsg>> \o [k \in 1..Len(emitted) |->
                        [kind |-> "record", seq |-> k, body |-> emitted[k].body]]

Greeting == <<InfoMsg>>

\* wss.on('connection') (server.js:29-36)
Connection(c) ==
    /\ readyState[c] = "NONE"
    /\ readyState' = [readyState EXCEPT ![c] = "OPEN"]
    /\ inbox' = [inbox EXCEPT ![c] = @ \o Greeting]
    /\ regAt' = [regAt EXCEPT ![c] = Len(emitted)]
    /\ UNCHANGED <<buffer, pc, input, pos, chunks, emitted, estVars, hostVars>>

\* the closing handshake of a client begins: readyState CLOSING, still in
\* wss.clients
BeginClose(c) ==
    /\ readyState[c] = "OPEN"
    /\ readyState' = [readyState EXCEPT ![c] = "CLOSING"]
    /\ UNCHANGED <<buffer, pc, inbox, input, pos, chunks, emitted, regAt, estVars, hostVars>>

\* ws.on('close') (server.js:33-35): the socket is closed and out of
\* wss.clients
Close(c) ==
    /\ readyState[c] \in {"OPEN", "CLOSING"}
    /\ readyState' = [readyState EXCEPT ![c] = "CLOSED"]
    /\ UNCHANGED <<buffer, pc, inbox, input, pos, chunks, emitted, regAt, estVars, hostVars>>

-----------------------------------------------------------------------------
(* The estimator: physics.ts.  A JavaScript number is modelled as a        *)
(* fixed-point number: the integer n stands for n / Scale, and every        *)
(* product and quotient is rounded toward zero to a multiple of 1 / Scale.  *)
(* Timestamps are whole milliseconds.                                       *)
(* Like a double, the numbers have a largest value: a square or a sum       *)
(* beyond MAX_VALUE is Infinity, a number divided by Infinity is 0, and 0   *)
(* divided by 0 is NaN, which every operation on it gives back.             *)

Scale == 10 ^ 3

One == Scale
Half == Scale \div 2

\* NaN is the largest integer: a comparison a < b with NaN for a, false in
\* JavaScript, is false in the model, and Math.abs(NaN) is NaN
NaN == 2147483647
Infinity == NaN - 1
MAX_VALUE == Infinity - 1

Abs(a) == IF a < 0 THEN -a ELSE a

\* a / b rounded toward zero, for b > 0
Div(a, b) == IF a >= 0 THEN a \div b ELSE -((-a) \div b)

\* the product of two fixed-point numbers
Mul(a, b) == IF a = NaN \/ b = NaN THEN NaN ELSE Div(a * b, Scale)

\* a + b
Plus(a, b) == IF a = NaN \/ b = NaN THEN NaN ELSE a + b

\* a * a, and the sum of two of them: Infinity beyond MAX_VALUE
Square(a) == IF a # 0 /\ Abs(a) > MAX_VALUE \div Abs(a) THEN Infinity ELSE a * a

SumOfSquares(a, b) ==
    IF a = Infinity \/ b = Infinity \/ a > MAX_VALUE - b THEN Infinity ELSE a + b

\* a / b
Quotient(a, b) ==
    IF a = NaN \/ b = NaN THEN NaN
    ELSE IF b = Infinity THEN 0
    ELSE IF b = 0 THEN (IF a = 0 THEN NaN ELSE IF a > 0 THEN Infinity ELSE -Infinity)
    ELSE Div(a * Scale, b)

\* the largest r with r * r <= n, between lo and hi
RECURSIVE SqrtBetween(_, _, _)
SqrtBetween(n, lo, hi) ==
    IF hi - lo <= 1 THEN lo
    ELSE LET mid == (lo + hi) \div 2
         IN  IF mid * mid <= n THEN SqrtBetween(n, mid, hi) ELSE SqrtBetween(n, lo, mid)

\* Math.sqrt of a sum of products of two fixed-point numbers
Sqrt(n) == SqrtBetween(n, 0, IF n + 1 < 46341 THEN n + 1 ELSE 46341)

FRICTION == (95 * Scale) \div 100
GRAVITY == (981 * Scale) \div 100
DEAD_ZONE == (2 * Scale) \div 10
ZVU_THRESHOLD == (1 * Scale) \div 10
SCALE_FACTOR == (5 * Scale) \div 10
MS_PER_SECOND == 1000

Zero3 == [x |-> 0, y |-> 0, z |-> 0]
IdentityQuaternion == [x |-> 0, y |-> 0, z |-> 0, w |-> One]

\* the object the constructor builds (physics.ts:13-20)
ConstructedStateStamped ==
    [position |-> Zero3, rotation |-> IdentityQuaternion, velocity |-> Zero3,
     lastUpdate |-> clock]

ConstructedState ==
    [position |-> Zero3, rotation |-> IdentityQuaternion, velocity |-> Zero3,
     lastUpdate |-> 0]

\* the object reset() builds (physics.ts:22-29); now is performance.now()
ResetStateKeepsVelocity(now) ==
    [position |-> Zero3, rotation |-> IdentityQuaternion,
     velocity |-> heap[engine].velocity, lastUpdate |-> now]

ResetState(now) ==
    [position |-> Zero3, rotation |-> IdentityQuaternion, velocity |-> Zero3,
     lastUpdate |-> now]

\* a quaternion with a NaN, and what a sum of products with a NaN gives
HasNaN(q) == q.x = NaN \/ q.y = NaN \/ q.z = NaN \/ q.w = NaN
NaNQuaternion == [x |-> NaN, y |-> NaN, z |-> NaN, w |-> NaN]
NaN3 == [x |-> NaN, y |-> NaN, z |-> NaN]

\* multiplyQuaternions (physics.ts:36-43)
multiplyQuaternions(q1, q2) ==
    IF HasNaN(q1) \/ HasNaN(q2) THEN NaNQuaternion ELSE
    [x |-> Div(q1.x * q2.w + q1.y * q2.z - q1.z * q2.y + q1.w * q2.x, Scale),
     y |-> Div(-q1.x * q2.z + q1.y * q2.w + q1.z * q2.x + q1.w * q2.y, Scale),
     z |-> Div(q1.x * q2.y - q1.y * q2.x + q1.z * q2.w + q1.w * q2.z, Scale),
     w |-> Div(-q1.x * q2.x - q1.y * q2.y - q1.z * q2.z + q1.w * q2.w, Scale)]

\* applyQuaternion (physics.ts:46-60)
applyQuaternion(v, q) ==
    IF HasNaN(q) THEN NaN3 ELSE
    LET x == v.x  y == v.y  z == v.z
        qx == q.x  qy == q.y  qz == q.z  qw == q.w
        ix == Div(qw * x + qy * z - qz * y, Scale)
        iy == Div(qw * y + qz * x - qx * z, Scale)
        iz == Div(qw * z + qx * y - qy * x, Scale)
        iw == Div(-qx * x - qy * y - qz * z, Scale)
    IN  [x |-> Div(ix * qw + iw * (-qx) + iy * (-qz) - iz * (-qy), Scale),
         y |-> Div(iy * qw + iw * (-qy) + iz * (-qx) - ix * (-qz), Scale),
         z |-> Div(iz * qw + iw * (-qz) + ix * (-qy) - iy * (-qx), Scale)]

\* sqrt(x^2 + y^2 + z^2 + w^2) (physics.ts:93, 100)
Magnitude(q) ==
    IF HasNaN(q) THEN NaN
    ELSE LET n == SumOfSquares(SumOfSquares(SumOfSquares(Square(q.x), Square(q.y)),
                                            Square(q.z)), Square(q.w))
         IN  IF n = Infinity THEN Infinity ELSE Sqrt(n)

\* the four divisions by the magnitude (physics.ts:94, 101-104)
DivideBy(q, mag) ==
    [x |-> Quotient(q.x, mag), y |-> Quotient(q.y, mag),
     z |-> Quotient(q.z, mag), w |-> Quotient(q.w, mag)]

\* a || b on numbers: b when a is 0
JsOrFirst(a, b) == a

JsOr(a, b) == IF a # 0 THEN a ELSE b

\* dt in seconds (physics.ts:64)
Dt(now, lastUpdate) == Div((now - JsOr(lastUpdate, now)) * Scale, MS_PER_SECOND)

\* this.state.lastUpdate = now (physics.ts:65)
StampedNeverBack(lastUpdate, now) == IF now > lastUpdate THEN now ELSE lastUpdate

Stamped(lastUpdate, now) == now

\* the test that ends update early (physics.ts:67)
DtRejectedLagOnly(dt) == dt > One

DtRejected(dt) == dt > One \/ dt <= 0

\* worldAccel.y -= GRAVITY (physics.ts:138)
SubtractGravityFromZ(a) == [a EXCEPT !.z = Plus(@, -GRAVITY)]

SubtractGravity(a) == [a EXCEPT !.y = Plus(@, -GRAVITY)]

\* the dead zone of one axis (physics.ts:141-143)
DeadZoneInclusive(a) == IF Abs(a) <= DEAD_ZONE THEN 0 ELSE a

DeadZone(a) == IF Abs(a) < DEAD_ZONE THEN 0 ELSE a

\* the test of the zero-velocity update (physics.ts:156), on worldAccel as it
\* is at that line
ZeroVelocityAnyAxis(a) ==
    Abs(a.x) < ZVU_THRESHOLD \/ Abs(a.y) < ZVU_THRESHOLD \/ Abs(a.z) < ZVU_THRESHOLD

ZeroVelocity(a) ==
    Abs(a.x) < ZVU_THRESHOLD /\ Abs(a.y) < ZVU_THRESHOLD /\ Abs(a.z) < ZVU_THRESHOLD

Scale3(v, k) == [x |-> Mul(v.x, k), y |-> Mul(v.y, k), z |-> Mul(v.z, k)]
Add3(u, v) == [x |-> Plus(u.x, v.x), y |-> Plus(u.y, v.y), z |-> Plus(u.z, v.z)]

\* update (physics.ts:62-169) on the fields st of this.state: the fields when
\* it returns, and what it computed on the way
UpdateOf(st, accel, gyro, timestamp) ==
    LET now == timestamp
        dt == Dt(now, st.lastUpdate)
        stamped == [st EXCEPT !.lastUpdate = Stamped(@, now)]
    IN  IF DtRejected(dt)
        THEN [state |-> stamped, accepted |-> FALSE, dt |-> dt,
              worldAccel |-> Zero3, integrated |-> st.velocity, halved |-> FALSE]
        ELSE
        LET gx == gyro[1]  gy == gyro[2]  gz == gyro[3]
            dQ0 == [x |-> Mul(Mul(gx, dt), Half), y |-> Mul(Mul(gy, dt), Half),
                    z |-> Mul(Mul(gz, dt), Half), w |-> One]
            dQ == DivideBy(dQ0, Magnitude(dQ0))
            product == multiplyQuaternions(st.rotation, dQ)
            rotation == DivideBy(product, Magnitude(product))
            localAccel == [x |-> accel[1], y |-> accel[2], z |-> accel[3]]
            rotated == applyQuaternion(localAccel, rotation)
            worldAccel == SubtractGravity(rotated)
            cleared == [x |-> DeadZone(worldAccel.x), y |-> DeadZone(worldAccel.y),
                        z |-> DeadZone(worldAccel.z)]
            integrated == Add3(st.velocity, Scale3(cleared, dt))
            damped == Scale3(integrated, FRICTION)
            halved == ZeroVelocity(cleared)
            velocity == IF halved THEN Scale3(damped, Half) ELSE damped
            position == Add3(st.position, Scale3(Scale3(velocity, dt), SCALE_FACTOR))
        IN  [state |-> [position |-> position, rotation |-> rotation,
                        velocity |-> velocity, lastUpdate |-> stamped.lastUpdate],
             accepted |-> TRUE, dt |-> dt,
             worldAccel |-> worldAccel, integrated |-> integrated, halved |-> halved]

\* The heap.  An object exists while something refers to it; a new object
\* takes the first free identity.
ObjIds == 1..4

Collect(h, roots) == [i \in (DOMAIN h) \cap roots |-> h[i]]

NewObj(h) == CHOOSE i \in ObjIds \ DOMAIN h : \A j \in ObjIds \ DOMAIN h : i <= j

WithObj(h, i, st) == [j \in (DOMAIN h) \cup {i} |-> IF j = i THEN st ELSE h[j]]

MaxOps == 3

\* performance.now() when the estimator is constructed
StartTime == 100

Timestamps == {0, 100, 700, 1100, 1300}

AccelInputs ==
    {<<0, GRAVITY, 0>>,
     <<(15 * Scale) \div 100, GRAVITY + DEAD_ZONE, -(5 * Scale) \div 100>>,
     <<3 * Scale, GRAVITY, -DEAD_ZONE>>,
     <<(5 * Scale) \div 100, GRAVITY + (5 * Scale) \div 100, (5 * Scale) \div 100>>,
     <<(15 * Scale) \div 100, GRAVITY + (5 * Scale) \div 100, -(5 * Scale) \div 100>>}

GyroInputs == {<<0, 0, 0>>, <<0, 0, 2 * Scale>>}

NoInput == <<0, 0, 0>>

\* what the history keeps of an operation
OpRecord(name, accel, gyro, timestamp, r, pre) ==
    [name |-> name, prev |-> op.name, accel |-> accel, gyro |-> gyro,
     timestamp |-> timestamp, accepted |-> r.accepted, dt |-> r.dt,
     worldAccel |-> r.worldAccel, integrated |-> r.integrated, halved |-> r.halved,
     pre |-> pre]

NoUpdate(st) ==
    [state |-> st, accepted |-> FALSE, dt |-> 0, worldAccel |-> Zero3,
     integrated |-> st.velocity, halved |-> FALSE]

\* the objects something still refers to after a step
LiveAfter(h) == Collect(h, {engine', readerRef', physicsStateRef'})

\* physicsEngine.update(accel, gyro, timestamp): this.state is changed in
\* place.  (The caller says what becomes of readerRef and physicsStateRef.)
UpdateCall(accel, gyro, timestamp) ==
    /\ UNCHANGED engine
    /\ LET r == UpdateOf(heap[engine], accel, gyro, timestamp)
       IN  /\ heap' = LiveAfter([heap EXCEPT ![engine] = r.state])
           /\ op' = OpRecord("update", accel, gyro, timestamp, r, heap[engine])
    /\ nOps' = nOps + 1

\* physicsEngine.reset(): this.state becomes a new object
ResetCall ==
    /\ LET used == Collect(heap, {readerRef', physicsStateRef'})
           n == NewObj(used)
       IN  /\ engine' = n
           /\ heap' = WithObj(used, n, ResetState(clock))
    /\ op' = OpRecord("reset", NoInput, NoInput, clock, NoUpdate(heap[engine]), heap[engine])
    /\ nOps' = nOps + 1

\* a caller passes update any timestamp
Update(accel, gyro, timestamp) ==
    /\ nOps < MaxOps
    /\ UNCHANGED <<readerRef, readerSeen, physicsStateRef>>
    /\ UpdateCall(accel, gyro, timestamp)
    /\ UNCHANGED <<clock, serverVars, isConnected, wsRef, sock, mesh, hostEvent, nEvents>>

Reset ==
    /\ nOps < MaxOps
    /\ UNCHANGED <<readerRef, readerSeen, physicsStateRef>>
    /\ ResetCall
    /\ UNCHANGED <<clock, serverVars, isConnected, wsRef, sock, mesh, hostEvent, nEvents>>

\* a reader calls physicsEngine.getState() (physics.ts:31-33) and keeps what
\* it returns: the object itself
GetState ==
    /\ nOps < MaxOps
    /\ readerRef' = engine
    /\ readerSeen' = heap[engine]
    /\ UNCHANGED <<engine, physicsStateRef>>
    /\ heap' = LiveAfter(heap)
    /\ nOps' = nOps + 1
    /\ UNCHANGED <<clock, op, serverVars, isConnected, wsRef, sock, mesh, hostEvent, nEvents>>

\* time passes
Tick(t) ==
    /\ nOps < MaxOps
    /\ t > clock
    /\ clock' = t
    /\ UNCHANGED <<heap, engine, readerRef, readerSeen, op, nOps, serverVars, hostVars>>

\* new PhysicsEngine() at time t
Constructed(t) ==
    /\ clock = t
    /\ engine = 1
    /\ heap = [i \in {1} |-> ConstructedState]
    /\ readerRef = 0
    /\ readerSeen = ConstructedState
    /\ op = [name |-> "construct", prev |-> "none", accel |-> NoInput, gyro |-> NoInput,
             timestamp |-> t, accepted |-> FALSE, dt |-> 0, worldAccel |-> Zero3,
             integrated |-> Zero3, halved |-> FALSE, pre |-> ConstructedState]
    /\ nOps = 0

-----------------------------------------------------------------------------
(* The host: App.tsx, with the buttons of ConnectionPanel.tsx and the       *)
(* render loop of Visualizer.tsx.  The status log is not modelled.          *)

MaxSockets == 2
MaxEvents == 6

SockIds == 1..MaxSockets

\* event.data of a message.  parses: JSON.parse accepts it; type: its "type"
\* member ("none" when it has none); hasAccel, hasGyro: it has a
\* "Motion Accel" / "Pseudo Gyro" member with values
Message(parses, type, hasAccel, accel, hasGyro, gyro) ==
    [parses |-> parses, type |-> type, hasAccel |-> hasAccel, accel |-> accel,
     hasGyro |-> hasGyro, gyro |-> gyro]

HostMessages ==
    {Message(FALSE, "none", FALSE, NoInput, FALSE, NoInput),
     Message(TRUE, "info", FALSE, NoInput, FALSE, NoInput),
     Message(TRUE, "info", TRUE, <<3 * Scale, GRAVITY, -DEAD_ZONE>>, TRUE, <<0, 0, 2 * Scale>>),
     Message(TRUE, "none", TRUE, <<3 * Scale, GRAVITY, -DEAD_ZONE>>, FALSE, NoInput),
     Message(TRUE, "none", FALSE, NoInput, TRUE, <<0, 0, 2 * Scale>>),
     Message(TRUE, "none", TRUE, <<0, GRAVITY, 0>>, TRUE, <<0, 0, 0>>),
     Message(TRUE, "none", TRUE, <<3 * Scale, GRAVITY, -DEAD_ZONE>>, TRUE, <<0, 0, 2 * Scale>>)}

\* (data as any).type === 'info' (App.tsx:43)
IsInfoNever(m) == FALSE

IsInfo(m) == m.type = "info"

\* accelData && gyroData (App.tsx:49-52)
HasAChannel(m) == m.hasAccel \/ m.hasGyro

HasBothChannels(m) == m.hasAccel /\ m.hasGyro

\* the message of an event that is no message
NoMessage == Message(FALSE, "none", FALSE, NoInput, FALSE, NoInput)

\* disconnected: a disconnect command has been handled and no connect
\* command since
HostEvent(kind, type, sensor) ==
    [kind |-> kind, type |-> type, sensor |-> sensor, msg |-> NoMessage,
     disconnected |-> FALSE]

DisconnectedAfter(kind) ==
    IF kind = "disconnect" THEN TRUE
    ELSE IF kind = "connect" THEN FALSE
    ELSE hostEvent.disconnected

\* the history of an event that is not a message
Handled(kind) ==
    /\ nEvents < MaxEvents
    /\ hostEvent' = [HostEvent(kind, "none", FALSE) EXCEPT
                         !.disconnected = DisconnectedAfter(kind)]
    /\ nEvents' = nEvents + 1

\* the history of a message: its type and whether it has both channels
HandledMessage(m) ==
    /\ nEvents < MaxEvents
    /\ hostEvent' = [HostEvent("message", m.type, m.hasAccel /\ m.hasGyro) EXCEPT
                         !.msg = m, !.disconnected = DisconnectedAfter("message")]
    /\ nEvents' = nEvents + 1

EstimatorUntouched == UNCHANGED <<heap, engine, op, nOps>>

\* the Connect button (ConnectionPanel.tsx:25-42) and handleConnect
\* (App.tsx:22-78) with an address that is not empty
HandleConnect ==
    /\ ~isConnected
    /\ \E s \in SockIds :
          /\ sock[s] = "NONE"
          /\ \A r \in SockIds : r < s => sock[r] # "NONE"
          /\ sock' = [sock EXCEPT ![s] = "CONNECTING"]
          /\ wsRef' = s
    /\ Handled("connect")
    /\ EstimatorUntouched
    /\ UNCHANGED <<isConnected, physicsStateRef, mesh, clock, readerRef, readerSeen, serverVars>>

\* ws.onopen (App.tsx:32-36)
WsOpen(s) ==
    /\ sock[s] = "CONNECTING"
    /\ sock' = [sock EXCEPT ![s] = "OPEN"]
    /\ isConnected' = TRUE
    /\ Handled("open")
    /\ UNCHANGED <<readerRef, readerSeen, physicsStateRef>>
    /\ ResetCall
    /\ UNCHANGED <<wsRef, mesh, clock, serverVars>>

\* ws.onmessage (App.tsx:38-61)
WsMessage(s, m) ==
    /\ sock[s] = "OPEN"
    /\ HandledMessage(m)
    /\ UNCHANGED <<readerRef, readerSeen>>
    /\ IF m.parses /\ ~IsInfo(m) /\ HasBothChannels(m)
       THEN /\ physicsStateRef' = engine
            /\ UpdateCall(m.accel, m.gyro, clock)
       ELSE /\ UNCHANGED physicsStateRef
            /\ EstimatorUntouched
    /\ UNCHANGED <<isConnected, wsRef, sock, mesh, clock, serverVars>>

\* ws.onclose (App.tsx:68-72)
WsClose(s) ==
    /\ sock[s] \in {"CONNECTING", "OPEN", "CLOSING"}
    /\ sock' = [sock EXCEPT ![s] = "CLOSED"]
    /\ isConnected' = FALSE
    /\ wsRef' = 0
    /\ Handled("close")
    /\ EstimatorUntouched
    /\ UNCHANGED <<physicsStateRef, mesh, clock, readerRef, readerSeen, serverVars>>

\* the Disconnect button (ConnectionPanel.tsx:53-58) and handleDisconnect
\* (App.tsx:80-84)
HandleDisconnect ==
    /\ isConnected
    /\ sock' = IF wsRef # 0 /\ sock[wsRef] \in {"CONNECTING", "OPEN"}
               THEN [sock EXCEPT ![wsRef] = "CLOSING"] ELSE sock
    /\ Handled("disconnect")
    /\ EstimatorUntouched
    /\ UNCHANGED <<isConnected, wsRef, physicsStateRef, mesh, clock, readerRef, readerSeen,
                   serverVars>>

\* the Reset Position button (ConnectionPanel.tsx:47-52) and handleReset
\* (App.tsx:86-89)
HandleReset ==
    /\ isConnected
    /\ Handled("reset")
    /\ UNCHANGED <<readerRef, readerSeen, physicsStateRef>>
    /\ ResetCall
    /\ UNCHANGED <<isConnected, wsRef, sock, mesh, clock, serverVars>>

\* useFrame (Visualizer.tsx:14-24): the renderer copies position and rotation
\* from physicsState.current
Frame ==
    /\ mesh' = [position |-> heap[physicsStateRef].position,
                rotation |-> heap[physicsStateRef].rotation]
    /\ Handled("frame")
    /\ EstimatorUntouched
    /\ UNCHANGED <<isConnected, wsRef, sock, physicsStateRef, clock, readerRef, readerSeen,
                   serverVars>>

\* time passes
HostTick(t) ==
    /\ nEvents < MaxEvents
    /\ t > clock
    /\ clock' = t
    /\ UNCHANGED <<heap, engine, readerRef, readerSeen, op, nOps, serverVars, hostVars>>

\* the App component is mounted: useRef(new PhysicsEngine()),
\* useRef(physicsEngine.current.getState()) (App.tsx:8-16)
HostMounted ==
    /\ isConnected = FALSE
    /\ wsRef = 0
    /\ sock = [s \in SockIds |-> "NONE"]
    /\ physicsStateRef = 1
    /\ mesh = [position |-> Zero3, rotation |-> IdentityQuaternion]
    /\ hostEvent = HostEvent("mount", "none", FALSE)
    /\ nEvents = 0

\* there is no host
HostAbsent ==
    /\ isConnected = FALSE
    /\ wsRef = 0
    /\ sock = [s \in SockIds |-> "NONE"]
    /\ physicsStateRef = 0
    /\ mesh = [position |-> Zero3, rotation |-> IdentityQuaternion]
    /\ hostEvent = HostEvent("none", "none", FALSE)
    /\ nEvents = 0

-----------------------------------------------------------------------------
(* What the sensor process writes.  A record is given by its text (raw) and *)
(* by the text JSON.stringify gives for its value (canon).                  *)

RecPlain == [raw |-> <<LB, QT, QT, CO, D1, RB>>,
             canon |-> <<LB, QT, QT, CO, D1, RB>>]
RecNested == [raw |-> <<LB, QT, QT, CO, LB, QT, QT, CO, D1, RB, RB>>,
              canon |-> <<LB, QT, QT, CO, LB, QT, QT, CO, D1, RB, RB>>]
RecSpaced == [raw |-> <<LB, NL, QT, QT, CO, D1, D1, NL, RB>>,
              canon |-> <<LB, QT, QT, CO, D1, D1, RB>>]
RecEmpty == [raw |-> <<LB, RB>>, canon |-> <<LB, RB>>]
RecBraceKey == [raw |-> <<LB, QT, RB, QT, CO, D1, RB>>,
                canon |-> <<LB, QT, RB, QT, CO, D1, RB>>]
RecBoundaryKey == [raw |-> <<LB, QT, RB, LB, QT, CO, D1, RB>>,
                   canon |-> <<LB, QT, RB, LB, QT, CO, D1, RB>>]

Records == {RecPlain, RecNested, RecSpaced, RecEmpty, RecBraceKey, RecBoundaryKey}

Separators == {<<NL>>, <<>>}

\* two complete records with a newline or nothing between them
TwoRecordStreams ==
    {[text |-> r1.raw \o sep \o r2.raw, recs |-> <<r1, r2>>] :
        r1 \in Records, r2 \in Records, sep \in Separators}

NoClients == [c \in Clients |-> "NONE"]

InitFramer ==
    /\ input \in TwoRecordStreams
    /\ pos = 0
    /\ chunks = 0
    /\ buffer = <<>>
    /\ pc = "idle"
    /\ readyState = NoClients
    /\ inbox = [c \in Clients |-> <<>>]
    /\ emitted = <<>>
    /\ regAt = [c \in Clients |-> 0]
    /\ Constructed(StartTime)
    /\ HostAbsent

NextFramer == \E n \in 1..Len(input.text) : Data(n)

SpecFramer == InitFramer /\ [][NextFramer]_vars

\* three complete records in a row, one boundary of each form
StreamRecords == {RecEmpty, RecPlain, RecSpaced}

BoundaryStreams ==
    {[text |-> r1.raw \o sep \o r2.raw \o (IF sep = <<>> THEN <<NL>> ELSE <<>>) \o r3.raw,
      recs |-> <<r1, r2, r3>>] :
        r1 \in StreamRecords, r2 \in StreamRecords, r3 \in StreamRecords,
        sep \in Separators}

\* the end of a record whose beginning was lost, then two complete records
Fragments == {<<CO, D1, RB>>, <<D1, RB>>, <<RB>>}

FragmentStreams ==
    {[text |-> f \o sep \o r1.raw \o sep \o r2.raw, recs |-> <<r1, r2>>] :
        f \in Fragments, r1 \in StreamRecords, r2 \in StreamRecords, sep \in Separators}

\* one client is connected before the sensor process writes
InitStream ==
    /\ input \in BoundaryStreams \cup FragmentStreams
    /\ pos = 0
    /\ chunks = 0
    /\ buffer = <<>>
    /\ pc = "idle"
    /\ readyState = [c \in Clients |-> IF c = 1 THEN "OPEN" ELSE "NONE"]
    /\ inbox = [c \in Clients |-> IF c = 1 THEN Greeting ELSE <<>>]
    /\ emitted = <<>>
    /\ regAt = [c \in Clients |-> 0]
    /\ Constructed(StartTime)
    /\ HostAbsent

NextStream == \E n \in 1..Len(input.text) : Data(n)

SpecStream == InitStream /\ [][NextStream]_vars

\* The handler step by step, on every text of MaxText braces and newlines,
\* cut into chunks in every way.  The handler runs to its end once it has
\* begun: nothing else runs in the process meanwhile.
MaxText == 5

LoopTexts == {[text |-> t, recs |-> <<>>] : t \in [1..MaxText -> {LB, RB, NL}]}

InitLoop ==
    /\ input \in LoopTexts
    /\ pos = 0
    /\ chunks = 0
    /\ buffer = <<>>
    /\ pc = "idle"
    /\ readyState = [c \in Clients |-> IF c = 1 THEN "OPEN" ELSE "NONE"]
    /\ inbox = [c \in Clients |-> IF c = 1 THEN Greeting ELSE <<>>]
    /\ emitted = <<>>
    /\ regAt = [c \in Clients |-> 0]
    /\ Constructed(StartTime)
    /\ HostAbsent

NextLoop ==
    \/ \E n \in 1..MaxText : Receive(n)
    \/ LoopIteration
    \/ LoopExit
    \/ Fallback

SpecLoop ==
    /\ InitLoop /\ [][NextLoop]_vars
    /\ WF_vars(LoopIteration) /\ WF_vars(LoopExit) /\ WF_vars(Fallback)

\* three records, the first two with nothing between them
RelayStreams ==
    {[text |-> RecEmpty.raw \o RecEmpty.raw \o <<NL>> \o RecEmpty.raw,
      recs |-> <<RecEmpty, RecEmpty, RecEmpty>>]}

InitRelay ==
    /\ input \in RelayStreams
    /\ pos = 0
    /\ chunks = 0
    /\ buffer = <<>>
    /\ pc = "idle"
    /\ readyState = NoClients
    /\ inbox = [c \in Clients |-> <<>>]
    /\ emitted = <<>>
    /\ regAt = [c \in Clients |-> 0]
    /\ Constructed(StartTime)
    /\ HostAbsent

NextRelay ==
    \/ \E n \in 1..Len(input.text) : Data(n)
    \/ \E c \in Clients : Connection(c)
    \/ \E c \in Clients : BeginClose(c)
    \/ \E c \in Clients : Close(c)

SpecRelay == InitRelay /\ [][NextRelay]_vars

\* the relay does nothing while the estimator is exercised
RelayIdle ==
    /\ input = [text |-> <<>>, recs |-> <<>>]
    /\ pos = 0
    /\ chunks = 0
    /\ buffer = <<>>
    /\ pc = "idle"
    /\ readyState = NoClients
    /\ inbox = [c \in Clients |-> <<>>]
    /\ emitted = <<>>
    /\ regAt = [c \in Clients |-> 0]

InitEstimator == RelayIdle /\ Constructed(StartTime) /\ HostAbsent

NextEstimator ==
    \/ \E a \in AccelInputs, g \in GyroInputs, t \in Timestamps : Update(a, g, t)
    \/ Reset
    \/ GetState
    \/ \E t \in Timestamps : Tick(t)

SpecEstimator == InitEstimator /\ [][NextEstimator]_vars

\* The rest scenario: the device lies still, its accelerometer reads gravity
\* alone, and a sample arrives every 1/60 s (in whole milliseconds), after
\* construction or after one reset.
MaxRestSteps == 60


RestTime(k) == StartTime + (k * MS_PER_SECOND) \div 60

\* the time of the first sample after t
NextSample(t) ==
    LET k == CHOOSE k \in 1..(MaxRestSteps + 1) :
                 RestTime(k) > t /\ \A j \in 1..(k - 1) : RestTime(j) <= t
    IN  RestTime(k)

RestUpdate ==
    /\ nOps < MaxRestSteps
    /\ clock' = NextSample(clock)
    /\ UNCHANGED <<readerRef, readerSeen, physicsStateRef>>
    /\ UpdateCall(<<0, GRAVITY, 0>>, <<0, 0, 0>>, clock')
    /\ UNCHANGED <<serverVars, isConnected, wsRef, sock, mesh, hostEvent, nEvents>>

RestReset ==
    /\ nOps < MaxRestSteps
    /\ UNCHANGED <<readerRef, readerSeen, physicsStateRef>>
    /\ ResetCall
    /\ UNCHANGED <<clock, serverVars, isConnected, wsRef, sock, mesh, hostEvent, nEvents>>

InitRest == RelayIdle /\ Constructed(StartTime) /\ HostAbsent

NextRest == RestUpdate \/ RestReset

SpecRest == InitRest /\ [][NextRest]_vars

\* The estimator with angular velocities up to one whose half step, squared,
\* is beyond MAX_VALUE.
SpinInputs == {<<0, 0, 0>>, <<0, 0, 2 * Scale>>, <<0, 0, 200 * Scale>>}

SpinAccelInputs == {<<0, GRAVITY, 0>>, <<3 * Scale, GRAVITY, -DEAD_ZONE>>}

InitSpin == RelayIdle /\ Constructed(StartTime) /\ HostAbsent

NextSpin ==
    \/ \E a \in SpinAccelInputs, g \in SpinInputs, t \in Timestamps : Update(a, g, t)
    \/ Reset
    \/ \E t \in Timestamps : Tick(t)

SpecSpin == InitSpin /\ [][NextSpin]_vars

InitHost == RelayIdle /\ Constructed(StartTime) /\ HostMounted

NextHost ==
    \/ HandleConnect
    \/ \E s \in SockIds : WsOpen(s)
    \/ \E s \in SockIds, m \in HostMessages : WsMessage(s, m)
    \/ \E s \in SockIds : WsClose(s)
    \/ HandleDisconnect
    \/ HandleReset
    \/ Frame
    \/ \E t \in Timestamps : HostTick(t)

SpecHost == InitHost /\ [][NextHost]_vars

-----------------------------------------------------------------------------
(* Claims about the framer *)

Bodies == [k \in 1..Len(emitted) |-> emitted[k].body]

Expected == [k \in 1..Len(input.recs) |-> input.recs[k].canon]

IsPrefix(a, b) == Len(a) <= Len(b) /\ SubSeq(b, 1, Len(a)) = a

AllDelivered == pos = Len(input.text)

\* what has been emitted is a prefix of the stream's records, and all of
\* them once the whole stream has been delivered
EmitsExactlyTheRecords == IsPrefix(Bodies, Expected) /\ (AllDelivered => Bodies = Expected)

\* no record of the stream holds the sequence }{ (inside a string, the only
\* place JSON allows it)
NoBoundaryInsideRecords ==
    \A k \in 1..Len(input.recs) : IndexOf(input.recs[k].raw, <<RB, LB>>) = -1

BraceBoundaryFirst ==
    LET bn == IndexOf(input.text, <<RB, NL, LB>>)
        bp == IndexOf(input.text, <<RB, LB>>)
    IN  bn # -1 /\ bp # -1 /\ bp < bn

\* C13: a buffer that holds three complete records, with a }{ boundary before
\* a }\n{ boundary, has every one of them emitted, in order.
C13_LeftmostBoundary ==
    (input \in BoundaryStreams /\ BraceBoundaryFirst /\ AllDelivered /\ chunks = 1)
        => Bodies = Expected

\* the records client c has been sent, without the greeting
RecordsSentTo(c) ==
    LET recs == SelectSeq(inbox[c], LAMBDA m : m.kind = "record")
    IN  [k \in 1..Len(recs) |-> recs[k].body]

\* C14: a left part that does not parse is discarded, nothing is sent for it,
\* and the complete records after it are emitted: a stream that begins with
\* a fragment has its two records, and nothing else, emitted and sent.
C14_FragmentDiscarded ==
    input \in FragmentStreams =>
        /\ EmitsExactlyTheRecords
        /\ RecordsSentTo(1) = Bodies

\* a fragment and two records delivered in one chunk: the loop discarded the
\* fragment and both records reached the client
C14_Witness ==
    /\ input \in FragmentStreams
    /\ AllDelivered /\ chunks = 1
    /\ Len(emitted) = 2
    /\ RecordsSentTo(1) = Expected

\* a text that parses as one complete record, a JSON object
IsRecord(t) == JSONParses(t) /\ At(TrimLeft(t), 1) = LB

NoBoundary(t) == IndexOf(t, <<RB, NL, LB>>) = -1 /\ IndexOf(t, <<RB, LB>>) = -1

\* the handler's step on a chunk: what is left after the loop is emitted once
\* and the buffer emptied when it is a record, and is otherwise kept whole
\* with nothing emitted for it
FallbackStep ==
    LET whole == buffer \o SubSeq(input.text, pos + 1, pos')
        loop == SplitLoop(whole, <<>>)
        sentInLoop == Messages(loop.cands)
    IN  /\ NoBoundary(whole) => loop.buffer = whole /\ sentInLoop = <<>>
        /\ IF IsRecord(loop.buffer)
           THEN /\ buffer' = <<>>
                /\ Bodies' = Bodies \o sentInLoop \o <<JSONStringifyParse(loop.buffer)>>
           ELSE /\ buffer' = loop.buffer
                /\ Bodies' = Bodies \o sentInLoop

\* C15: after the loop a remaining buffer that is a complete record is
\* emitted once and the buffer becomes empty; any other remaining buffer is
\* kept as it is and nothing is emitted for it; so after each chunk the
\* buffer is never a complete record.
C15_Fallback ==
    /\ [](~IsRecord(buffer))
    /\ [][pos' > pos => FallbackStep]_vars

\* the first record was emitted by the fallback, and a later chunk that ends
\* with } inside a nested record is kept whole in the buffer
C15_Witness ==
    /\ Bodies = <<RecEmpty.canon>>
    /\ buffer = SubSeq(RecNested.raw, 1, Len(RecNested.raw) - 1)
    /\ EndsWith(buffer, RB)
    /\ chunks = 2

\* C21: every iteration of the splitting loop removes at least one character
\* from the buffer, and the data handler, once it has begun, returns.
C21_Terminates ==
    /\ [][(pc = "loop" /\ pc' = "loop") => Len(buffer') < Len(buffer)]_vars
    /\ (pc # "idle") ~> (pc = "idle")

\* the handler has returned from a chunk of five characters on which its
\* loop iterated twice: two records emitted, an opening brace left
C21_Witness ==
    /\ pc = "idle"
    /\ chunks = 1 /\ pos = MaxText
    /\ Len(emitted) = 2
    /\ buffer = <<LB>>

-----------------------------------------------------------------------------
(* Claims about the fan-out *)

Emissions == 1..Len(emitted)

\* the emissions client c has been sent
DeliveredTo(c) == {inbox[c][k].seq : k \in 1..Len(inbox[c])} \ {0}

\* how many times client c has been sent emission e
TimesDelivered(c, e) == Cardinality({k \in 1..Len(inbox[c]) : inbox[c][k].seq = e})

\* what c was sent for emission e is the emitted text
DeliveredIntact(c) ==
    \A k \in 1..Len(inbox[c]) :
        inbox[c][k].kind = "record" => inbox[c][k].body = emitted[inbox[c][k].seq].body

\* no client is sent an emission made before it registered
NoReplay ==
    \A e \in Emissions : \A c \in Clients :
        emitted[e].states[c] = "NONE" => e \notin DeliveredTo(c)

\* C2 as stated: every emitted record is delivered to every subscriber
\* registered at the moment of emission, and to no subscriber that registered
\* after it.
C2_EveryRegistered ==
    /\ \A e \in Emissions : \A c \in Registered(emitted[e].states) : e \in DeliveredTo(c)
    /\ NoReplay

\* C2 amended: every emitted record is delivered, once and intact, to every
\* subscriber that is registered and whose readyState is OPEN at the moment
\* of emission, and to no subscriber that registered after it.
C2_FanOut ==
    /\ \A e \in Emissions : \A c \in Clients :
          emitted[e].states[c] = "OPEN" => TimesDelivered(c, e) = 1
    /\ \A c \in Clients : DeliveredIntact(c)
    /\ NoReplay

\* client 1 was open for emissions 1 and 2 and has both; client 2 registered
\* between them and has only the second
C2_Witness ==
    /\ Len(emitted) >= 2
    /\ emitted[1].states[1] = "OPEN" /\ emitted[1].states[2] = "NONE"
    /\ emitted[2].states[1] = "OPEN" /\ emitted[2].states[2] = "OPEN"
    /\ {1, 2} \subseteq DeliveredTo(1)
    /\ 2 \in DeliveredTo(2) /\ 1 \notin DeliveredTo(2)

\* C3: a subscriber that is registered but not OPEN when a record is emitted
\* is not sent that record, then or at any later time.
C3_SkippedNeverDelivered ==
    \A e \in Emissions : \A c \in Clients :
        emitted[e].states[c] = "CLOSING" => e \notin DeliveredTo(c)

\* client 1 got emission 1, was closing at emission 2, another record was
\* emitted after that, and emission 2 never reached it
C3_Witness ==
    /\ Len(emitted) = 3
    /\ emitted[1].states[1] = "OPEN"
    /\ emitted[2].states[1] = "CLOSING"
    /\ DeliveredTo(1) = {1}
    /\ 3 \in DeliveredTo(2)

-----------------------------------------------------------------------------
(* Claims about the host *)

\* the step handles a message whose type is 'info'
InfoMessageStep ==
    /\ nEvents' = nEvents + 1
    /\ hostEvent'.kind = "message"
    /\ hostEvent'.type = "info"

\* C4: a message whose type is 'info' never reaches the estimator: the host
\* does not call update for it, and position, velocity and rotation stay as
\* they were.
C4_InfoFiltered ==
    [][InfoMessageStep =>
          /\ nOps' = nOps
          /\ heap'[engine'].position = heap[engine].position
          /\ heap'[engine'].velocity = heap[engine].velocity
          /\ heap'[engine'].rotation = heap[engine].rotation
          /\ heap'[engine'].lastUpdate = heap[engine].lastUpdate]_vars

\* an info message that carries both sensor channels has been handled after
\* an update had moved the pose, and the last operation on the estimator is
\* still that update
C4_Witness ==
    /\ hostEvent.kind = "message" /\ hostEvent.type = "info" /\ hostEvent.sensor
    /\ op.name = "update" /\ op.accepted
    /\ heap[engine].velocity # Zero3
    /\ nOps = 2

\* the step handles a message that parses and whose type is not 'info'
RecordStep ==
    /\ nEvents' = nEvents + 1
    /\ hostEvent'.kind = "message"
    /\ hostEvent'.msg.parses
    /\ hostEvent'.type # "info"

\* the step calls update once, with the message's values and the time of
\* arrival
UpdatedWith(m) ==
    /\ nOps' = nOps + 1
    /\ op'.name = "update"
    /\ op'.accel = m.accel /\ op'.gyro = m.gyro
    /\ op'.timestamp = clock

\* C16 as stated: the host calls update once for each sensor record it
\* receives, also one that carries only one of the two channels.
C16_EveryRecord ==
    [][(RecordStep /\ (hostEvent'.msg.hasAccel \/ hostEvent'.msg.hasGyro))
          => UpdatedWith(hostEvent'.msg)]_vars

\* C16 amended: the host calls update once, as the message arrives, for each
\* record that carries both channels, and does not call it for a record that
\* carries only one.
C16_BothChannels ==
    [][RecordStep =>
          IF hostEvent'.msg.hasAccel /\ hostEvent'.msg.hasGyro
          THEN UpdatedWith(hostEvent'.msg)
          ELSE nOps' = nOps /\ heap'[engine'] = heap[engine]]_vars

\* two records with both channels were handled one after the other, each
\* with its update, and the last update has the values of the last record
C16_Witness ==
    /\ hostEvent.kind = "message" /\ hostEvent.msg.hasAccel /\ hostEvent.msg.hasGyro
    /\ op.name = "update" /\ op.prev = "update"
    /\ op.accel = hostEvent.msg.accel /\ op.gyro = hostEvent.msg.gyro
    /\ op.accel # <<0, GRAVITY, 0>>
    /\ nOps = 3

\* C19: a frame after a reset, with no update since, shows the identity
\* pose.
C19_ResetVisible ==
    (hostEvent.kind = "frame" /\ op.name = "reset") =>
        /\ mesh.position = Zero3
        /\ mesh.rotation = IdentityQuaternion

\* C20: after a disconnect command, once the host reports not connected and
\* until the next connect command, no message reaches update.
C20_DisconnectStops ==
    [][(hostEvent.disconnected /\ ~isConnected /\ hostEvent'.kind = "message"
            /\ nEvents' = nEvents + 1)
          => nOps' = nOps]_vars

-----------------------------------------------------------------------------
(* Claims about the estimator *)

\* the fields of this.state
Cur == heap[engine]

Pose(st) == [position |-> st.position, rotation |-> st.rotation, velocity |-> st.velocity]

IdentityPose ==
    [position |-> [x |-> 0, y |-> 0, z |-> 0],
     rotation |-> [x |-> 0, y |-> 0, z |-> 0, w |-> Scale],
     velocity |-> [x |-> 0, y |-> 0, z |-> 0]]

\* C5: after reset() position and velocity are zero and rotation is
\* (0,0,0,1), whatever the state before; a reset right after a reset leaves
\* the same position, velocity and rotation.
C5_IdentityReset ==
    op.name = "reset" =>
        /\ Pose(Cur) = IdentityPose
        /\ op.prev = "reset" => Pose(Cur) = Pose(op.pre)

\* a reset of an estimator that had moved, turned and had a velocity
C5_Witness ==
    /\ op.name = "reset"
    /\ op.pre.position # IdentityPose.position
    /\ op.pre.velocity # IdentityPose.velocity
    /\ op.pre.rotation # IdentityPose.rotation

\* the time from the stored timestamp to the call's timestamp, in ms
ElapsedMs == op.timestamp - op.pre.lastUpdate

\* C6: an update whose timestamp is not later than the stored one, or later
\* by more than one second, leaves position, velocity and rotation as they
\* were and stores the call's timestamp.
C6_DtGuard ==
    (op.name = "update" /\ (ElapsedMs <= 0 \/ ElapsedMs > 1000)) =>
        /\ Pose(Cur) = Pose(op.pre)
        /\ Cur.lastUpdate = op.timestamp

\* an update with an earlier timestamp on an estimator that has a velocity
C6_Witness ==
    /\ op.name = "update"
    /\ ElapsedMs < 0
    /\ op.pre.velocity # IdentityPose.velocity
    /\ Cur.lastUpdate = op.timestamp

\* C7 as stated: a new estimator has the identity pose and lastUpdate equal
\* to the time of construction, the state reset() at that time gives.
C7_ConstructedLikeReset ==
    op.name = "construct" =>
        /\ Pose(Cur) = IdentityPose
        /\ Cur.lastUpdate = op.timestamp

\* C7 amended: a new estimator has the identity pose, the pose reset()
\* gives, and lastUpdate 0, not the time of construction.
C7_Constructed ==
    op.name = "construct" =>
        /\ Pose(Cur) = IdentityPose
        /\ Cur.lastUpdate = 0

\* a new estimator, built at a time other than 0
C7_Witness ==
    /\ op.name = "construct"
    /\ nOps = 0
    /\ op.timestamp # 0
    /\ Pose(Cur) = IdentityPose

C9_RestStaysIdentity == op.name = "update" => Pose(Cur) = IdentityPose

\* one second of samples, the last one integrated
C9_Witness ==
    /\ clock = RestTime(60)
    /\ op.name = "update"
    /\ op.accepted
    /\ op.dt > 0
    /\ Pose(Cur) = IdentityPose

\* what an accepted update added to one axis of velocity before damping
Added(axis) ==
    CASE axis = "x" -> op.integrated.x - op.pre.velocity.x
      [] axis = "y" -> op.integrated.y - op.pre.velocity.y
      [] axis = "z" -> op.integrated.z - op.pre.velocity.z

World(axis) ==
    CASE axis = "x" -> op.worldAccel.x
      [] axis = "y" -> op.worldAccel.y
      [] axis = "z" -> op.worldAccel.z

\* C10: in an accepted update, an axis of the world-frame acceleration (after
\* the gravity subtraction) of magnitude below 0.2 adds nothing to that axis
\* of velocity before damping, and an axis at or above 0.2 adds a * dt.
C10_DeadZone ==
    (op.name = "update" /\ op.accepted) =>
        \A axis \in {"x", "y", "z"} :
            Added(axis) = IF Abs(World(axis)) < (2 * Scale) \div 10
                          THEN 0
                          ELSE Div(World(axis) * op.dt, Scale)

\* an accepted update with x below the threshold and not zero, y exactly at
\* it: x adds nothing, y adds
C10_Witness ==
    /\ op.name = "update" /\ op.accepted
    /\ World("x") # 0 /\ Abs(World("x")) < (2 * Scale) \div 10
    /\ Abs(World("y")) = (2 * Scale) \div 10
    /\ Added("x") = 0
    /\ Added("y") # 0

\* the velocity of an accepted update after the 0.95 damping alone, and after
\* the damping and the halving
DampedOnly == Scale3(op.integrated, (95 * Scale) \div 100)
DampedAndHalved == Scale3(DampedOnly, Scale \div 2)

AllAxesBelow(limit) == \A axis \in {"x", "y", "z"} : Abs(World(axis)) < limit

\* C11 as stated: in an accepted update the velocity is halved after the
\* damping exactly when the world-frame acceleration before the dead zone is
\* below 0.1 on every axis.
C11_TestBeforeDeadZone ==
    (op.name = "update" /\ op.accepted) =>
        Cur.velocity = IF AllAxesBelow(Scale \div 10) THEN DampedAndHalved ELSE DampedOnly

\* C11 amended: the test reads the acceleration after the dead zone, so the
\* velocity is halved exactly when every axis is below 0.2 before the dead
\* zone, also when some axis is between 0.1 and 0.2.
C11_TestAfterDeadZone ==
    (op.name = "update" /\ op.accepted) =>
        Cur.velocity = IF AllAxesBelow((2 * Scale) \div 10) THEN DampedAndHalved ELSE DampedOnly

\* an accepted update of an estimator that has a velocity, with x between 0.1
\* and 0.2 and the other axes below 0.1: the velocity is halved
C11_Witness ==
    /\ op.name = "update" /\ op.accepted
    /\ Abs(World("x")) >= Scale \div 10
    /\ AllAxesBelow((2 * Scale) \div 10)
    /\ DampedOnly # DampedAndHalved
    /\ Cur.velocity = DampedAndHalved

\* the square of the norm of the rotation lies between the squares of
\* 1 - tolerance and 1 + tolerance, for a tolerance in units of 1 / Scale
NormWithin(q, tolerance) ==
    /\ ~HasNaN(q)
    /\ LET n == q.x * q.x + q.y * q.y + q.z * q.z + q.w * q.w
       IN  /\ n >= (Scale - tolerance) * (Scale - tolerance)
           /\ n <= (Scale + tolerance) * (Scale + tolerance)

\* C12: after every accepted update, whatever the angular velocities, the
\* norm of rotation is 1 within the tolerance of the arithmetic.
C12_UnitNorm ==
    (op.name = "update" /\ op.accepted) => NormWithin(Cur.rotation, 2)

\* the same for the angular velocities whose half step, squared, is a number
C12_UnitNormInRange ==
    (op.name = "update" /\ op.accepted /\ Abs(op.gyro[3]) <= 2 * Scale /\ ~HasNaN(op.pre.rotation))
        => NormWithin(Cur.rotation, 2)

\* the time an update is measured from as the claim has it: the timestamp of
\* the update or reset before it, or the time of construction
ReferenceTime == IF op.prev = "construct" THEN StartTime ELSE op.pre.lastUpdate

\* C17 as stated: an update later than the update, reset or construction
\* before it by more than 0 and at most 1 second is accepted.
C17_NeverDropped ==
    (op.name = "update" /\ op.timestamp - ReferenceTime > 0
                        /\ op.timestamp - ReferenceTime <= 1000) => op.accepted

\* C17 amended: such an update is accepted, with that time as dt, when the
\* stored timestamp is not 0; when it is 0, after construction and after an
\* update whose timestamp was 0, the update is dropped.
C17_AcceptedUnlessUnstamped ==
    op.name = "update" =>
        /\ (op.pre.lastUpdate # 0 /\ ElapsedMs > 0 /\ ElapsedMs <= 1000)
              => (op.accepted /\ op.dt = (ElapsedMs * Scale) \div 1000)
        /\ op.pre.lastUpdate = 0 => (~op.accepted /\ Pose(Cur) = Pose(op.pre))

\* an update exactly one second after the update before it, accepted, that
\* changed rotation, velocity and position
C17_Witness ==
    /\ op.name = "update" /\ op.prev = "update"
    /\ op.pre.lastUpdate # 0 /\ ElapsedMs = 1000
    /\ op.accepted
    /\ Cur.rotation # op.pre.rotation
    /\ Cur.velocity # op.pre.velocity
    /\ Cur.position # op.pre.position

\* C18 as stated: over update calls with any timestamps the stored timestamp
\* never decreases.
C18_NeverDecreases == op.name = "update" => Cur.lastUpdate >= op.pre.lastUpdate

\* C18 amended: after every update call, accepted or dropped, the stored
\* timestamp is the call's timestamp, also when that is earlier than the one
\* stored before; the dt of an accepted update is measured from the stored one.
C18_StoresLatest ==
    op.name = "update" =>
        /\ Cur.lastUpdate = op.timestamp
        /\ op.accepted => op.dt = (ElapsedMs * Scale) \div 1000

\* an update with an earlier timestamp, not 0, has lowered the stored one
C18_Witness ==
    /\ op.name = "update"
    /\ op.timestamp # 0
    /\ op.timestamp < op.pre.lastUpdate
    /\ Cur.lastUpdate < op.pre.lastUpdate
    /\ ~op.accepted

=============================================================================
